---- MODULE Spec2Model ----
(***************************************************************************)
(* RenderOnCanvas (four revisions) and the main bootstrap of               *)
(* harshulvijay/beautiful-code-snippets.                                   *)
(*                                                                         *)
(* Revisions of the component:                                             *)
(*   "head"     src/src/RenderOnCanvas/RenderOnCanvas.tsx  (object URL,    *)
(*              width/height props)                                        *)
(*   "b64lib"   src/unnamed/part_000 lines 1-180  (js-base64 data URL)     *)
(*   "fixed500" src/unnamed/part_000 lines 182-274 (object URL, 500x500)   *)
(*   "btoa"     src/unnamed/part_001  (btoa data URL)                      *)
(*                                                                         *)
(* JavaScript handlers run to completion, so the effect body, the cleanup, *)
(* the image load handler and each continuation of an async function are   *)
(* one action each.  The browser delivers an image's load or error event   *)
(* as a task of its own, after the script that assigned image.src.         *)
(***************************************************************************)
EXTENDS Integers, Sequences, FiniteSets, TLC

\* ------------------------------------------------------------------ bounds
\* number of effect runs of one mounted component
MaxRuns == 2

\* ---------------------------------------------------------------- constants
defaultHeight == 150
defaultWidth == 150
\* the fixed size of the "fixed500" revision
fixedSize == 500
\* size of a canvas element that has no width/height attribute
canvasDefaultWidth == 300
canvasDefaultHeight == 150

Revisions == {"head", "b64lib", "fixed500", "btoa"}

UsesObjectURL(r) == r \in {"head", "fixed500"}
UsesBase64(r) == r \in {"b64lib", "btoa"}
AcceptsSize(r) == r \in {"head", "b64lib", "btoa"}
\* only part_000:171 hands height/width on to the canvas element; the other
\* revisions destructure them out of props and spread the rest
PassesSizeToCanvas(r) == r = "b64lib"

\* ------------------------------------------------------------------ inputs
\* VNodes that can be passed as children (compared by identity by useEffect)
VNodes == {"ascii", "latin1", "unicode"}

\* an optional numeric prop: <<>> when omitted, <<n>> when given
SizeProps ==
  { [width |-> <<>>, height |-> <<>>],
    [width |-> <<200>>, height |-> <<100>>] }

NoSize == [width |-> <<>>, height |-> <<>>]

SizeInputs(r) == IF AcceptsSize(r) THEN SizeProps ELSE {NoSize}

\* messages of rejected dynamic imports
Errors == {"e1", "e2"}

\* destructuring default: `width = 150`
Default(opt, d) == IF opt = <<>> THEN d ELSE opt[1]

\* ------------------------------------------------------- markup and encoding
\* preact-render-to-string on the children: the code points of the markup.
\* 65 = "A", 233 = U+00E9 (Latin-1), 8364 = U+20AC (outside Latin-1)
render(children) ==
  CASE children = "ascii" -> <<65>>
    [] children = "latin1" -> <<65, 233>>
    [] children = "unicode" -> <<8364>>

\* the template of useSvgForeignObject: height/width are written on the
\* svg element and on the foreignObject, the html markup goes in between
useSvgForeignObject(htmlMarkup, width, height) ==
  [ svgHeight |-> height, svgWidth |-> width,
    foHeight |-> height, foWidth |-> width,
    html |-> htmlMarkup ]

\* the code points of the svg markup string; the template text around the
\* html markup is ASCII and is kept as its first and last character, < and >
SvgChars(svg) == <<60>> \o svg.html \o <<62>>

RECURSIVE Utf8Encode(_)
Utf8Encode(chars) ==
  IF chars = <<>> THEN <<>>
  ELSE LET c == Head(chars)
           bytes ==
             IF c < 128 THEN <<c>>
             ELSE IF c < 2048 THEN <<192 + (c \div 64), 128 + (c % 64)>>
             ELSE <<224 + (c \div 4096), 128 + ((c \div 64) % 64), 128 + (c % 64)>>
       IN bytes \o Utf8Encode(Tail(chars))

\* a decoder's view of a byte string: is it well-formed UTF-8
RECURSIVE Utf8Valid(_)
Utf8Valid(bytes) ==
  IF bytes = <<>> THEN TRUE
  ELSE LET b == Head(bytes)
           n == Len(bytes)
           Cont(i) == i <= n /\ bytes[i] >= 128 /\ bytes[i] < 192
       IN IF b < 128 THEN Utf8Valid(Tail(bytes))
          ELSE IF b >= 192 /\ b < 224
            THEN Cont(2) /\ Utf8Valid(SubSeq(bytes, 3, n))
          ELSE IF b >= 224 /\ b < 240
            THEN Cont(2) /\ Cont(3) /\ Utf8Valid(SubSeq(bytes, 4, n))
          ELSE FALSE

\* Base64 alphabet indices 0..63; 64 is the padding character "="
RECURSIVE Base64OfBytes(_)
Base64OfBytes(bytes) ==
  LET n == Len(bytes) IN
  IF n = 0 THEN <<>>
  ELSE IF n = 1 THEN
    << bytes[1] \div 4, (bytes[1] % 4) * 16, 64, 64 >>
  ELSE IF n = 2 THEN
    << bytes[1] \div 4, (bytes[1] % 4) * 16 + (bytes[2] \div 16),
       (bytes[2] % 16) * 4, 64 >>
  ELSE
    << bytes[1] \div 4, (bytes[1] % 4) * 16 + (bytes[2] \div 16),
       (bytes[2] % 16) * 4 + (bytes[3] \div 64), bytes[3] % 64 >>
    \o Base64OfBytes(SubSeq(bytes, 4, n))

RECURSIVE BytesOfBase64(_)
BytesOfBase64(b64) ==
  IF b64 = <<>> THEN <<>>
  ELSE LET a == b64[1]
           b == b64[2]
           c == b64[3]
           d == b64[4]
           b1 == a * 4 + (b \div 16)
           b2 == (b % 16) * 16 + (c \div 4)
           b3 == (c % 4) * 64 + d
           group == IF c = 64 THEN <<b1>>
                    ELSE IF d = 64 THEN <<b1, b2>>
                    ELSE <<b1, b2, b3>>
       IN group \o BytesOfBase64(SubSeq(b64, 5, Len(b64)))

\* window.btoa: every code unit must be a byte, else InvalidCharacterError
btoa(chars) ==
  IF \E i \in 1..Len(chars) : chars[i] > 255
    THEN [threw |-> TRUE, b64 |-> <<>>]
    ELSE [threw |-> FALSE, b64 |-> Base64OfBytes(chars)]

\* js-base64 Base64.encode: UTF-8 first, then Base64 of the bytes
Base64encode(chars) == btoa(Utf8Encode(chars))

\* the encoder each Base64 revision calls on the svg markup
EncodeSvg(r, chars) ==
  IF r = "btoa" THEN btoa(chars) ELSE Base64encode(chars)

\* image.src of a run
NoSrc == [kind |-> "none", b64 |-> <<>>, url |-> 0]
DataURL(b64) == [kind |-> "data", b64 |-> b64, url |-> 0]
ObjectURL(id) == [kind |-> "blob", b64 |-> <<>>, url |-> id]

\* can the image decoder read the resource behind src as an svg document:
\* a data URL carries the bytes the encoder produced, a Blob built from a
\* string carries its UTF-8 encoding
Decodable(src, svg) ==
  CASE src.kind = "data" -> Utf8Valid(BytesOfBase64(src.b64))
    [] src.kind = "blob" -> Utf8Valid(Utf8Encode(SvgChars(svg)))
    [] OTHER -> FALSE

\* ---------------------------------------------------------------- the canvas
\* The bitmap is cut into cells by the sizes that occur; a cell is named by
\* the coordinates of its bottom-right corner.  A pixel is the stack of what
\* was painted on it, <<>> being transparent; a layer is a fill colour or
\* the image of an effect run.
XBreaks == {150, 200, 300, 500}
YBreaks == {100, 150, 500}
Cells == XBreaks \X YBreaks

InRect(c, w, h) == c[1] <= w /\ c[2] <= h

Blank == [c \in Cells |-> <<>>]

Paint(color) == [color |-> color, image |-> 0]
Picture(id) == [color |-> "", image |-> id]

Call(op, w, h, color, image) ==
  [op |-> op, w |-> w, h |-> h, color |-> color, image |-> image]

\* one call on the 2D context applied to the bitmap of an element of size el
ApplyCall(px, call, el) ==
  [c \in Cells |->
     IF ~(InRect(c, call.w, call.h) /\ InRect(c, el[1], el[2])) THEN px[c]
     ELSE CASE call.op = "clearRect" -> <<>>
            [] call.op = "fillRect" -> << Paint(call.color) >>
            [] call.op = "drawImage" -> Append(px[c], Picture(call.image))]

RECURSIVE ApplyCalls(_, _, _)
ApplyCalls(px, calls, el) ==
  IF calls = <<>> THEN px
  ELSE ApplyCalls(ApplyCall(px, Head(calls), el), Tail(calls), el)

\* setCanvasBgColor: fillStyle = color; fillRect(0, 0, width, height)
setCanvasBgColor(context, width, height, color) ==
  IF context THEN << Call("fillRect", width, height, color, 0) >> ELSE <<>>

\* clearCanvas: clearRect(0, 0, width, height), then the white background
clearCanvas(context, width, height) ==
  IF context
    THEN << Call("clearRect", width, height, "", 0) >>
         \o setCanvasBgColor(context, width, height, "white")
    ELSE <<>>

\* ------------------------------------------------------------------- state
VARIABLES
  env,          \* import.meta.env: "DEV" or "PROD"
  mainPc,       \* position of the top-level code of main / its dev async block
  callPc,       \* position of callPreact
  caught,       \* the error the dev block's catch clause received
  root,         \* what has been rendered into #app
  imported,     \* modules whose dynamic import has resolved
  unhandled,    \* messages of promises that rejected with nobody awaiting
  appRenders,   \* number of render(<App />) calls
  rev,          \* which revision of RenderOnCanvas the App uses
  phase,        \* "unmounted" | "mounted" | "removed"
  props,        \* the props of the last render: children, width, height
  canvasSize,   \* <<width, height>> of the canvas element
  has2d,        \* does canvas.getContext('2d') return a context
  pixels,       \* the canvas bitmap
  runs,         \* the effect runs so far, one record each
  hookDeps,     \* the deps of the last effect run: <<>> or <<children>>
  hookCleanup,  \* the run whose cleanup the hook holds, 0 if none
  objectURLs,   \* object URLs created and not yet revoked
  clock,        \* number of handlers executed, to order them
  lastHandler   \* the canvas calls of the handler executed last

bootVars == <<env, mainPc, callPc, caught, root, imported, unhandled, appRenders>>
compVars == <<rev, phase, props, canvasSize, has2d, pixels, runs, hookDeps,
              hookCleanup, objectURLs, clock, lastHandler>>
vars == <<bootVars, compVars>>

Empty == [ui |-> "empty", msg |-> ""]
AppUI == [ui |-> "App", msg |-> ""]
Fallback(msg) == [ui |-> "fallback", msg |-> msg]

NoHandler == [kind |-> "none", by |-> 0, calls |-> <<>>]

Init ==
  /\ env \in {"DEV", "PROD"}
  /\ mainPc = "start"
  /\ callPc = "idle"
  /\ caught = ""
  /\ root = Empty
  /\ imported = {}
  /\ unhandled = {}
  /\ appRenders = 0
  /\ rev \in Revisions
  /\ phase = "unmounted"
  /\ props = [children |-> "ascii", size |-> NoSize]
  /\ canvasSize = <<canvasDefaultWidth, canvasDefaultHeight>>
  /\ has2d = FALSE
  /\ pixels = Blank
  /\ runs = <<>>
  /\ hookDeps = <<>>
  /\ hookCleanup = 0
  /\ objectURLs = {}
  /\ clock = 0
  /\ lastHandler = NoHandler

\* ------------------------------------------------------------ main bootstrap
\* callPreact up to its first await
callPreact == "import_react"

\* the module's top-level code: the dev block starts and awaits devtools,
\* or production calls callPreact directly
MainModule ==
  /\ mainPc = "start"
  /\ IF env = "DEV"
       THEN /\ mainPc' = "import_devtools"
            /\ callPc' = callPc
       ELSE /\ mainPc' = "done"
            /\ callPc' = callPreact
  /\ UNCHANGED <<env, caught, root, imported, unhandled, appRenders, compVars>>

\* await import('preact/devtools') resolves: callPreact() is called and not
\* awaited, the try block and the async block end
DevtoolsResolved ==
  /\ mainPc = "import_devtools"
  /\ imported' = imported \cup {"preact/devtools"}
  /\ callPc' = callPreact
  /\ mainPc' = "done"
  /\ UNCHANGED <<env, caught, root, unhandled, appRenders, compVars>>

\* await import('preact/devtools') rejects: the catch clause starts
DevtoolsRejected(msg) ==
  /\ mainPc = "import_devtools"
  /\ caught' = msg
  /\ mainPc' = "catch_import_react"
  /\ UNCHANGED <<env, callPc, root, imported, unhandled, appRenders, compVars>>

\* the catch clause's import('react') resolves: the fallback is rendered
CatchRender ==
  /\ mainPc = "catch_import_react"
  /\ imported' = imported \cup {"react"}
  /\ root' = Fallback(caught)
  /\ mainPc' = "done"
  /\ UNCHANGED <<env, callPc, caught, unhandled, appRenders, compVars>>

\* the catch clause's import('react') rejects: the async block rejects
CatchRejected(msg) ==
  /\ mainPc = "catch_import_react"
  /\ unhandled' = unhandled \cup {msg}
  /\ mainPc' = "rejected"
  /\ UNCHANGED <<env, callPc, caught, root, imported, appRenders, compVars>>

\* callPreact: one of its three awaited imports resolves; after the last
\* one render(<App />, #app) runs
CallPreactResolved ==
  /\ callPc \in {"import_react", "import_app", "import_css"}
  /\ imported' = imported \cup
       { CASE callPc = "import_react" -> "react"
           [] callPc = "import_app" -> "./app"
           [] callPc = "import_css" -> "./index.css" }
  /\ IF callPc = "import_css"
       THEN /\ root' = AppUI
            /\ appRenders' = appRenders + 1
            /\ callPc' = "done"
       ELSE /\ callPc' = (IF callPc = "import_react"
                            THEN "import_app" ELSE "import_css")
            /\ UNCHANGED <<root, appRenders>>
  /\ UNCHANGED <<env, mainPc, caught, unhandled, compVars>>

\* callPreact: an awaited import rejects; no caller awaits callPreact
CallPreactRejected(msg) ==
  /\ callPc \in {"import_react", "import_app", "import_css"}
  /\ callPc' = "rejected"
  /\ unhandled' = unhandled \cup {msg}
  /\ UNCHANGED <<env, mainPc, caught, root, imported, appRenders, compVars>>

\* ------------------------------------------------------------ RenderOnCanvas
Before(seq, a, b) ==
  \E i, j \in 1..Len(seq) : i < j /\ seq[i] = a /\ seq[j] = b

\* an effect body that never assigns image.onload
EffectSteps_noHandler(r) ==
  CASE r \in {"head", "fixed500"} ->
         << "render", "svg", "image", "createObjectURL", "getContext",
            "src", "return" >>
    [] r = "b64lib" ->
         << "render", "svg", "image", "encode", "src", "getContext",
            "return" >>
    [] r = "btoa" ->
         << "render", "svg", "image", "encode", "getContext", "src",
            "return" >>

\* the steps of the effect body in the order the revision executes them
EffectSteps(r) ==
  CASE r \in {"head", "fixed500"} ->
         << "render", "svg", "image", "createObjectURL", "getContext",
            "onload", "src", "return" >>
    [] r = "b64lib" ->
         << "render", "svg", "image", "encode", "src", "getContext",
            "onload", "return" >>
    [] r = "btoa" ->
         << "render", "svg", "image", "encode", "getContext", "onload",
            "src", "return" >>

\* useSvgAsImageSrc / the inline image creation: the value given to
\* image.src, or the exception the encoder raised
ImageSrc(r, id, svg) ==
  IF UsesObjectURL(r)
    THEN [threw |-> FALSE, src |-> ObjectURL(id)]
    ELSE LET enc == EncodeSvg(r, SvgChars(svg))
         IN [threw |-> enc.threw,
             src |-> IF enc.threw THEN NoSrc ELSE DataURL(enc.b64)]

\* the effect body: the record of run number id, started at time t with the
\* props of the render that scheduled it
Effect(r, id, children, width, height, context, t) ==
  LET w == IF AcceptsSize(r) THEN width ELSE fixedSize
      h == IF AcceptsSize(r) THEN height ELSE fixedSize
      htmlMarkup == render(children)
      svg == useSvgForeignObject(htmlMarkup, w, h)
      made == ImageSrc(r, id, svg)
      steps == EffectSteps(r)
      base == [ id |-> id, children |-> children, width |-> w, height |-> h,
                svg |-> svg, startedAt |-> t, draws |-> <<>>,
                cleanups |-> <<>> ]
  IN IF made.threw
       THEN base @@
            [ status |-> "threw", context |-> FALSE, onload |-> FALSE,
              src |-> NoSrc, img |-> "none",
              steps |-> << "render", "svg", "image", "encode", "throw" >> ]
       ELSE base @@
            [ status |-> "returned", context |-> context,
              onload |-> Before(steps, "onload", "return"),
              src |-> made.src,
              img |-> IF Before(steps, "src", "return") THEN "pending"
                                                         ELSE "none",
              steps |-> steps ]

\* an effect body that revokes the URL right after assigning image.src
EffectURLs_revokedEarly(r, run, urls) == urls

\* URL.createObjectURL in the effect body
EffectURLs(r, run, urls) ==
  IF run.src.kind = "blob" THEN urls \cup {run.src.url} ELSE urls

\* a load handler that draws again after drawing
onload_drawTwice(run) ==
  IF run.context
    THEN clearCanvas(run.context, run.width, run.height)
         \o << Call("drawImage", run.svg.svgWidth, run.svg.svgHeight, "",
                    run.id),
               Call("drawImage", run.svg.svgWidth, run.svg.svgHeight, "",
                    run.id) >>
    ELSE <<>>

\* a load handler that draws without clearing the canvas first
onload_noClear(run) ==
  IF run.context
    THEN << Call("drawImage", run.svg.svgWidth, run.svg.svgHeight, "",
                 run.id) >>
    ELSE <<>>

\* image.onload: the calls it makes on the 2D context
onload(run) ==
  IF run.context
    THEN clearCanvas(run.context, run.width, run.height)
         \o << Call("drawImage", run.svg.svgWidth, run.svg.svgHeight, "",
                    run.id) >>
    ELSE <<>>

\* image.onload: URL.revokeObjectURL(imageSrc) inside `if (context)`
onloadURLs(r, run, urls) ==
  IF UsesObjectURL(r) /\ run.context THEN urls \ {run.src.url} ELSE urls

\* cleanup: the calls it makes on the 2D context
cleanup(run) == clearCanvas(run.context, run.width, run.height)

\* a cleanup that revokes only inside `if (context)`, as the handler does
cleanupURLs_ifContext(r, run, urls) ==
  IF UsesObjectURL(r) /\ run.context THEN urls \ {run.src.url} ELSE urls

\* cleanup: URL.revokeObjectURL(imageSrc), whatever the context is
cleanupURLs(r, run, urls) ==
  IF UsesObjectURL(r) THEN urls \ {run.src.url} ELSE urls

\* useEffect without a deps array: the effect re-runs on every render
DepsChanged_always(old, children) == TRUE

\* useEffect's comparison of the deps array [children] with the last one
DepsChanged(old, children) == old # <<children>>

\* the width/height attributes the rendered canvas element gets
CanvasAttrs(r, width, height) ==
  IF PassesSizeToCanvas(r)
    THEN <<width, height>>
    ELSE <<canvasDefaultWidth, canvasDefaultHeight>>

Count(calls, op) == Cardinality({i \in 1..Len(calls) : calls[i].op = op})

\* first render: the canvas element is created, then the effect runs
Mount(children, size, context) ==
  /\ root = AppUI
  /\ phase = "unmounted"
  /\ LET w == Default(size.width, defaultWidth)
         h == Default(size.height, defaultHeight)
         new == Effect(rev, 1, children, w, h, context, clock + 1)
     IN /\ runs' = << new >>
        /\ objectURLs' = EffectURLs(rev, new, objectURLs)
        /\ hookCleanup' = (IF new.status = "returned" THEN 1 ELSE 0)
        /\ canvasSize' = CanvasAttrs(rev, w, h)
  /\ phase' = "mounted"
  /\ props' = [children |-> children, size |-> size]
  /\ has2d' = context
  /\ hookDeps' = <<children>>
  /\ clock' = clock + 1
  /\ lastHandler' = NoHandler
  /\ UNCHANGED <<rev, pixels, bootVars>>

\* a later render with new props: the canvas attributes are updated (the
\* bitmap of a canvas is reset when its width or height attribute changes);
\* if the deps changed, the held cleanup runs and then the effect body
Rerender(children, size) ==
  /\ phase = "mounted"
  /\ LET w == Default(size.width, defaultWidth)
         h == Default(size.height, defaultHeight)
         changed == DepsChanged(hookDeps, children)
         el == CanvasAttrs(rev, w, h)
         px0 == IF el # canvasSize THEN Blank ELSE pixels
         held == changed /\ hookCleanup # 0
         calls == IF held THEN cleanup(runs[hookCleanup]) ELSE <<>>
         urls1 == IF held THEN cleanupURLs(rev, runs[hookCleanup], objectURLs)
                          ELSE objectURLs
         runs1 == IF held
                    THEN [runs EXCEPT ![hookCleanup].cleanups =
                                         Append(@, clock + 1)]
                    ELSE runs
         t == IF held THEN clock + 2 ELSE clock + 1
         id == Len(runs) + 1
         new == Effect(rev, id, children, w, h, has2d, t)
     IN /\ changed => Len(runs) < MaxRuns
        /\ canvasSize' = el
        /\ IF changed
             THEN /\ runs' = Append(runs1, new)
                  /\ objectURLs' = EffectURLs(rev, new, urls1)
                  /\ hookCleanup' = (IF new.status = "returned" THEN id ELSE 0)
                  /\ hookDeps' = <<children>>
                  /\ clock' = t
                  /\ pixels' = ApplyCalls(px0, calls, el)
                  /\ lastHandler' =
                       IF held
                         THEN [kind |-> "cleanup", by |-> hookCleanup,
                               calls |-> calls]
                         ELSE NoHandler
             ELSE /\ pixels' = px0
                  /\ lastHandler' = NoHandler
                  /\ UNCHANGED <<runs, objectURLs, hookCleanup, hookDeps, clock>>
  /\ props' = [children |-> children, size |-> size]
  /\ UNCHANGED <<rev, phase, has2d, bootVars>>

\* the component is removed: the held cleanup runs
Unmount ==
  /\ phase = "mounted"
  /\ phase' = "removed"
  /\ IF hookCleanup # 0
       THEN LET calls == cleanup(runs[hookCleanup])
            IN /\ pixels' = ApplyCalls(pixels, calls, canvasSize)
               /\ objectURLs' = cleanupURLs(rev, runs[hookCleanup], objectURLs)
               /\ runs' = [runs EXCEPT ![hookCleanup].cleanups =
                                          Append(@, clock + 1)]
               /\ clock' = clock + 1
               /\ lastHandler' = [kind |-> "cleanup", by |-> hookCleanup,
                                  calls |-> calls]
       ELSE /\ lastHandler' = NoHandler
            /\ UNCHANGED <<pixels, objectURLs, runs, clock>>
  /\ hookCleanup' = 0
  /\ UNCHANGED <<rev, props, canvasSize, has2d, hookDeps, bootVars>>

\* the browser's load event of the image of run i: the image decoded; the
\* handler assigned to image.onload, if any, is called
ImageLoad(i) ==
  /\ i \in 1..Len(runs)
  /\ runs[i].img = "pending"
  /\ Decodable(runs[i].src, runs[i].svg)
  /\ LET run == runs[i]
         calls == IF run.onload THEN onload(run) ELSE <<>>
         n == Count(calls, "drawImage")
     IN /\ pixels' = ApplyCalls(pixels, calls, canvasSize)
        /\ objectURLs' = (IF run.onload THEN onloadURLs(rev, run, objectURLs)
                                        ELSE objectURLs)
        /\ runs' = [runs EXCEPT
                      ![i].img = "loaded",
                      ![i].draws = @ \o [k \in 1..n |-> clock + 1]]
        /\ lastHandler' = [kind |-> "load", by |-> i, calls |-> calls]
  /\ clock' = clock + 1
  /\ UNCHANGED <<rev, phase, props, canvasSize, has2d, hookDeps, hookCleanup,
                 bootVars>>

\* the browser's error event of the image of run i (the resource could not
\* be fetched or decoded): no handler is assigned to image.onerror
ImageError(i) ==
  /\ i \in 1..Len(runs)
  /\ runs[i].img = "pending"
  /\ runs' = [runs EXCEPT ![i].img = "broken"]
  /\ UNCHANGED <<rev, phase, props, canvasSize, has2d, pixels, hookDeps,
                 hookCleanup, objectURLs, clock, lastHandler, bootVars>>

Next ==
  \/ MainModule
  \/ DevtoolsResolved
  \/ \E msg \in Errors : DevtoolsRejected(msg)
  \/ CatchRender
  \/ \E msg \in Errors : CatchRejected(msg)
  \/ CallPreactResolved
  \/ \E msg \in Errors : CallPreactRejected(msg)
  \/ \E c \in VNodes, s \in SizeInputs(rev), ctx \in BOOLEAN : Mount(c, s, ctx)
  \/ \E c \in VNodes, s \in SizeInputs(rev) : Rerender(c, s)
  \/ Unmount
  \/ \E i \in 1..MaxRuns + 1 : ImageLoad(i)
  \/ \E i \in 1..MaxRuns + 1 : ImageError(i)

Spec == Init /\ [][Next]_vars

\* ------------------------------------------------------------------ claims
Runs == 1..Len(runs)

\* the cells of the rectangle (0, 0, w, h) that lie on the canvas
Drawing(w, h) ==
  {c \in Cells : InRect(c, w, h) /\ InRect(c, canvasSize[1], canvasSize[2])}

C2_UrlReleased ==
  \A i \in Runs :
    (runs[i].src.kind = "blob" /\ runs[i].cleanups # <<>>)
      => runs[i].src.url \notin objectURLs

\* a cleaned-up run without a 2D context whose image loaded: the load
\* handler revoked nothing
C2_Witness ==
  \E i \in Runs :
    /\ runs[i].src.kind = "blob"
    /\ runs[i].cleanups # <<>>
    /\ ~runs[i].context
    /\ runs[i].img = "loaded"

\* C3: once a run's cleanup has executed its load handler never paints;
\* so with all images settled the canvas shows the latest children's image,
\* and after unmount the drawing rectangle stays white.
C3_NoContention ==
  /\ \A i \in Runs :
       (runs[i].draws # <<>> /\ runs[i].cleanups # <<>>)
         => runs[i].draws[1] < runs[i].cleanups[1]
  /\ (has2d /\ phase = "removed" /\ runs[Len(runs)].status = "returned") =>
       \A c \in Drawing(runs[Len(runs)].width, runs[Len(runs)].height) :
         pixels[c] = << Paint("white") >>
  /\ (has2d /\ phase = "mounted" /\ runs[Len(runs)].img = "loaded"
        /\ canvasSize = CanvasAttrs(rev, runs[Len(runs)].width,
                                    runs[Len(runs)].height)
        /\ \A i \in Runs : runs[i].img # "pending") =>
       \A c \in Drawing(runs[Len(runs)].width, runs[Len(runs)].height) :
         pixels[c] = << Paint("white"), Picture(Len(runs)) >>

C4_State ==
  /\ phase = "mounted" =>
       /\ runs # <<>>
       /\ runs[Len(runs)].children = props.children
       /\ hookDeps = << props.children >>
  /\ \A i \in Runs : Len(runs[i].cleanups) <= 1
  /\ \A i \in Runs : i < Len(runs) =>
       /\ runs[i].children # runs[i + 1].children
       /\ runs[i].status = "returned" =>
            /\ runs[i].cleanups # <<>>
            /\ runs[i].cleanups[1] + 1 = runs[i + 1].startedAt
  /\ phase = "removed" =>
       \A i \in Runs : runs[i].status = "returned" => Len(runs[i].cleanups) = 1

C4_Step ==
  (phase = "mounted" /\ phase' = "mounted"
     /\ props'.children = props.children) =>
    /\ Len(runs') = Len(runs)
    /\ \A i \in Runs : runs'[i].cleanups = runs[i].cleanups

\* C4: the pipeline re-runs exactly when children change: each change runs
\* the held cleanup and then, directly after it, the effect for the new
\* children; a render with the same children starts no run and no cleanup;
\* unmount runs the last run's cleanup, and no cleanup runs twice.
C4_RerunOnChildren == [](C4_State) /\ [][C4_Step]_vars

\* removed after two runs, the last render having changed only the size
C4_Witness ==
  /\ phase = "removed"
  /\ Len(runs) = 2
  /\ Len(runs[2].cleanups) = 1
  /\ Default(props.size.width, defaultWidth) # runs[2].width

\* C5: where width and height are props, the pair (150 when omitted) is the
\* size of the svg element, of the foreignObject, of the rectangle cleared
\* and filled, and of the canvas element.
C5_OneSize ==
  (AcceptsSize(rev) /\ phase = "mounted") =>
    LET w == Default(props.size.width, defaultWidth)
        h == Default(props.size.height, defaultHeight)
        run == runs[Len(runs)]
    IN /\ run.svg.svgWidth = w /\ run.svg.svgHeight = h
       /\ run.svg.foWidth = w /\ run.svg.foHeight = h
       /\ \A k \in 1..Len(cleanup(run)) :
            cleanup(run)[k].w = w /\ cleanup(run)[k].h = h
       /\ canvasSize = <<w, h>>

\* C6: in the Base64 revisions the encoder never throws, whatever the
\* markup: every effect run gets to image-loading with its handler
\* installed and returns its cleanup.
C6_UnicodeSafe ==
  UsesBase64(rev) =>
    \A i \in Runs :
      /\ runs[i].status = "returned"
      /\ runs[i].onload
      /\ runs[i].img # "none"

BootSettled ==
  /\ mainPc \in {"done", "rejected"}
  /\ callPc \in {"idle", "done", "rejected"}

\* C7: in development the App is rendered only after devtools was imported,
\* and an error during the development bootstrap ends with the fallback
\* showing its message; production renders the App without devtools; the
\* App is rendered at most once.
C7_Bootstrap ==
  /\ appRenders <= 1
  /\ (env = "DEV" /\ root = AppUI) => "preact/devtools" \in imported
  /\ env = "PROD" => "preact/devtools" \notin imported
  /\ (env = "PROD" /\ callPc = "done") => root = AppUI
  /\ (env = "DEV" /\ BootSettled /\ (caught # "" \/ unhandled # {})) =>
       /\ root.ui = "fallback"
       /\ root.msg \in ({caught} \cup unhandled)

C8_Handlers(anyCanvas) ==
  LET calls == lastHandler.calls
      run == runs[lastHandler.by]
      clear == Call("clearRect", run.width, run.height, "", 0)
      fill == Call("fillRect", run.width, run.height, "white", 0)
  IN /\ lastHandler.kind = "load" =>
          /\ \A k \in 1..Len(calls) : calls[k].op = "drawImage" =>
               /\ k >= 3
               /\ calls[k - 2] = clear
               /\ calls[k - 1] = fill
          /\ (anyCanvas \/ has2d) =>
               \A c \in Drawing(run.width, run.height) :
                 pixels[c] = << Paint("white"), Picture(run.id) >>
     /\ (lastHandler.kind = "cleanup" /\ (anyCanvas \/ has2d)) =>
          /\ calls = << clear, fill >>
          /\ \A c \in Drawing(run.width, run.height) :
               pixels[c] = << Paint("white") >>

\* C8 as stated: every drawImage directly follows, in its load handler, a
\* clearRect and a white fillRect of (0, 0, width, height); every cleanup
\* makes the same two calls; directly after a cleanup the drawing rectangle
\* is white, directly after a load handler it is the run's image on white.
C8_Original == C8_Handlers(TRUE)

\* C8 amended: the same, for a canvas that has a 2D context
C8_NoStalePixels == C8_Handlers(FALSE)

\* the second run's image is painted where the first run's image was
C8_Witness ==
  /\ lastHandler.kind = "load"
  /\ lastHandler.by = 2
  /\ Count(lastHandler.calls, "drawImage") = 1
  /\ runs[1].draws # <<>>

C9_State ==
  \A i \in Runs :
    runs[i].img = "broken" =>
      /\ runs[i].draws = <<>>
      /\ runs[i].src.kind = "blob" =>
           (runs[i].src.url \in objectURLs <=> runs[i].cleanups = <<>>)

C9_Step ==
  \A i \in Runs :
    /\ runs[i].img = "broken" => runs'[i].img = "broken"
    /\ (runs[i].img = "pending" /\ runs'[i].img = "broken") =>
         /\ pixels' = pixels
         /\ objectURLs' = objectURLs
         /\ Len(runs') = Len(runs)

\* C9: a run whose image fails to load stays as it is: the failure paints
\* nothing and starts nothing, the run never draws, and its object URL is
\* live exactly until the run's cleanup.
C9_FailedLoad == [](C9_State) /\ [][C9_Step]_vars

\* a failed image whose object URL the cleanup released
C9_Witness ==
  \E i \in Runs :
    /\ runs[i].img = "broken"
    /\ runs[i].src.kind = "blob"
    /\ runs[i].cleanups # <<>>
    /\ runs[i].src.url \notin objectURLs

\* C10: the load handler is installed by the time the image can load: a
\* run whose image is loading has its handler, comes to return, and when
\* the image loaded and the canvas has a 2D context the run has drawn.
C10_NoMissedLoad ==
  \A i \in Runs :
    LET run == runs[i] IN
    /\ run.img # "none" =>
         /\ run.onload
         /\ Before(run.steps, "onload", "return")
    /\ (run.img = "loaded" /\ run.context) => Len(run.draws) = 1

\* the revision whose helper assigns image.src before the handler is set
C10_Witness ==
  /\ rev = "b64lib"
  /\ \E i \in Runs :
       /\ Before(runs[i].steps, "src", "onload")
       /\ runs[i].img = "loaded"
       /\ runs[i].draws # <<>>

====
